---- MODULE Spec2Model ----
(***************************************************************************)
(* grpc-http-proxy: the service registry (source.Records) and the dynamic  *)
(* gRPC client (backend.Client).                                           *)
(*                                                                         *)
(* Spec        the registry driven by SetRecord / RemoveRecord /           *)
(*             ClearRecords / GetRecord from an empty mapping.             *)
(* ClientSpec  one backend.Client driven by Connect / Call / CloseConn.    *)
(***************************************************************************)
EXTENDS Integers, Sequences, FiniteSets, TLC

(***************************************************************************)
(* Bounds and input domains.                                               *)
(***************************************************************************)
\* The registry never holds more than this many addresses in total.
MaxEntries == 3

\* One Client has at most this many exported methods called on it.
MaxOps == 5
MaxCalls == 3

Services == {"a", "b"}
Versions == {"", "v1", "v2"}

\* The (service, version) pairs the discovery source registers: every version
\* of service "a", one version of service "b". Lookups and removals range
\* over all of Services \X Versions.
Registered == ({"a"} \X Versions) \cup {<<"b", "v1">>}

\* A ServiceURL is a value (ptr) with a canonical string form (str); two
\* distinct values may share one canonical form.
URLs ==
    { [ptr |-> "u1", str |-> "http://x"],
      [ptr |-> "u2", str |-> "http://x"],
      [ptr |-> "u3", str |-> "http://y"] }

NilURL == [ptr |-> "nil", str |-> ""]
NilErr == [Code |-> "nil", Message |-> <<>>]

String(u) == u.str

VARIABLES
    m,      \* Records.m : service -> version -> list of ServiceURL
    pre,    \* the mapping as it was when the last registry operation began
    last    \* the last registry operation, its arguments and what it returned

regVars == <<m, pre, last>>

VARIABLES
    c,          \* the fields of backend.Client
    net,        \* the connection Connect dialed: "none", "open" or "closed"
    log,        \* the calls the Client made to its collaborators, in order
    firstErr,   \* the first error a collaborator returned to the Client
    ops,        \* the exported methods called on the Client, in order
    ret         \* what the last exported method returned

clientVars == <<c, net, log, firstErr, ops, ret>>

VARIABLES
    static,     \* the Static resolver: whether NewStatic made it, and from what
    loaded      \* the mapping of the Static's records when NewStatic returned

staticVars == <<static, loaded>>

VARIABLES
    mutex,      \* Records.mutex: its writer, its readers, the writers waiting
    pc,         \* where each goroutine is in the registry operation it runs
    job,        \* the registry operation each goroutine runs, or ran last
    calls       \* the number of registry operations invoked so far

lockVars == <<mutex, pc, job, calls>>

vars == <<regVars, clientVars, staticVars, lockVars>>

(***************************************************************************)
(* Errors of the registry.                                                 *)
(***************************************************************************)
serviceUnresolvable(svc) ==
    [Code |-> "ServiceUnresolvable",
     Message |-> <<"The gRPC service", svc, "is unresolvable">>]

versionNotFound(svc, version) ==
    [Code |-> "ServiceUnresolvable",
     Message |-> <<"Version", version, "of the gRPC service", svc, "is unresolvable">>]

versionNotSpecified(svc) ==
    [Code |-> "VersionNotSpecified",
     Message |-> <<"There are multiple version of the gRPC service", svc,
                   "available. You must specify one">>]

versionUndecidable(svc) ==
    [Code |-> "VersionUndecidable",
     Message |-> <<"Multiple possible backends found for the gRPC service", svc,
                   "Add annotations to distinguish versions">>]

(***************************************************************************)
(* Go maps: a map is a function whose DOMAIN is its key set.               *)
(***************************************************************************)
EmptyMap == [k \in {} |-> <<>>]

\* delete(mp, key)
Delete(mp, key) == [k \in DOMAIN mp \ {key} |-> mp[k]]

\* mp[key] = val
Store(mp, key, val) == (key :> val) @@ mp

NewRecords == EmptyMap

(***************************************************************************)
(* The registry's operations as functions of the mapping.                  *)
(***************************************************************************)
\* ClearRecords that empties every list and keeps the keys.
RecordsClearRecords_KeepKeys(mm) ==
    [s \in DOMAIN mm |-> [v \in DOMAIN mm[s] |-> <<>>]]

RecordsClearRecords(mm) == EmptyMap

\* GetRecord with the "" version looked up like any other key.
RecordsGetRecord_NoDisambiguation(mm, svc, version) ==
    IF svc \notin DOMAIN mm
    THEN [url |-> NilURL, err |-> serviceUnresolvable(svc)]
    ELSE IF version \notin DOMAIN mm[svc]
    THEN [url |-> NilURL, err |-> versionNotFound(svc, version)]
    ELSE IF Len(mm[svc][version]) # 1
    THEN [url |-> NilURL, err |-> versionUndecidable(svc)]
    ELSE [url |-> mm[svc][version][1], err |-> NilErr]

\* GetRecord with the single-version test applied to every lookup.
RecordsGetRecord_AlwaysSingleVersion(mm, svc, version) ==
    IF svc \notin DOMAIN mm
    THEN [url |-> NilURL, err |-> serviceUnresolvable(svc)]
    ELSE IF Cardinality(DOMAIN mm[svc]) # 1
    THEN [url |-> NilURL, err |-> versionNotSpecified(svc)]
    ELSE IF version # "" /\ version \notin DOMAIN mm[svc]
    THEN [url |-> NilURL, err |-> versionNotFound(svc, version)]
    ELSE
      LET entries == mm[svc][CHOOSE v \in DOMAIN mm[svc] : TRUE] IN
      IF Len(entries) # 1
      THEN [url |-> NilURL, err |-> versionUndecidable(svc)]
      ELSE [url |-> entries[1], err |-> NilErr]

RecordsGetRecord(mm, svc, version) ==
    IF svc \notin DOMAIN mm
    THEN [url |-> NilURL, err |-> serviceUnresolvable(svc)]
    ELSE
      LET vs == mm[svc] IN
      IF version = "" /\ Cardinality(DOMAIN vs) # 1
      THEN [url |-> NilURL, err |-> versionNotSpecified(svc)]
      ELSE IF version = "" /\ DOMAIN vs # {}
      THEN \* the range loop over the single version returns in its first round
        LET entries == vs[CHOOSE v \in DOMAIN vs : TRUE] IN
        IF Len(entries) # 1
        THEN [url |-> NilURL, err |-> versionUndecidable(svc)]
        ELSE [url |-> entries[1], err |-> NilErr]
      ELSE IF version \notin DOMAIN vs
      THEN [url |-> NilURL, err |-> versionNotFound(svc, version)]
      ELSE IF Len(vs[version]) # 1
      THEN [url |-> NilURL, err |-> versionUndecidable(svc)]
      ELSE [url |-> vs[version][1], err |-> NilErr]

\* A map read that inserts the missing key, as an indexing write would.
RecordsLookup_Vivify(mm, svc) ==
    IF svc \in DOMAIN mm THEN mm ELSE Store(mm, svc, EmptyMap)

\* The mapping after a read (vs, ok := r.m[svc], r.m[svc] in len): reading a
\* missing key yields the zero value and inserts nothing.
RecordsLookup(mm, svc) == mm

\* IsServiceUnique that also wants the single version to hold one address.
RecordsIsServiceUnique_OneAddress(mm, svc) ==
    /\ svc \in DOMAIN mm
    /\ Cardinality(DOMAIN mm[svc]) = 1
    /\ \A v \in DOMAIN mm[svc] : Len(mm[svc][v]) = 1

RecordsIsServiceUnique(mm, svc) ==
    LET vs == IF svc \in DOMAIN mm THEN mm[svc] ELSE EmptyMap
    IN  Cardinality(DOMAIN vs) = 1

\* RecordExists that only looks for the service.
RecordsRecordExists_ServiceOnly(mm, svc, version) == svc \in DOMAIN mm

RecordsRecordExists(mm, svc, version) ==
    IF svc \notin DOMAIN mm THEN FALSE
    ELSE IF version \notin DOMAIN mm[svc] THEN FALSE
    ELSE Len(mm[svc][version]) > 0

\* SetRecord that appends only to a list that already exists.
RecordsSetRecord_AppendOnlyIfPresent(mm, svc, version, url) ==
    LET m1 == IF svc \notin DOMAIN mm THEN Store(mm, svc, EmptyMap) ELSE mm
    IN  IF version \notin DOMAIN m1[svc]
        THEN [m |-> Store(m1, svc, Store(m1[svc], version, <<>>)), ret |-> TRUE]
        ELSE [m |-> Store(m1, svc, Store(m1[svc], version,
                                         Append(m1[svc][version], url))),
              ret |-> TRUE]

\* SetRecord that skips an address the list already holds.
RecordsSetRecord_Dedup(mm, svc, version, url) ==
    LET m1 == IF svc \notin DOMAIN mm THEN Store(mm, svc, EmptyMap) ELSE mm
        old == IF version \in DOMAIN m1[svc] THEN m1[svc][version] ELSE <<>>
        new == IF \E i \in 1..Len(old) : String(old[i]) = String(url)
               THEN old
               ELSE Append(old, url)
    IN  [m |-> Store(m1, svc, Store(m1[svc], version, new)), ret |-> TRUE]

RecordsSetRecord(mm, svc, version, url) ==
    LET m1 == IF svc \notin DOMAIN mm THEN Store(mm, svc, EmptyMap) ELSE mm
        m2 == IF version \notin DOMAIN m1[svc]
              THEN Store(m1, svc, Store(m1[svc], version, <<>>))
              ELSE m1
        m3 == Store(m2, svc, Store(m2[svc], version, Append(m2[svc][version], url)))
    IN  [m |-> m3, ret |-> TRUE]

\* RemoveRecord that compares the addresses themselves, not their strings.
RecordsRemoveRecord_ByIdentity(mm, svc, version, url) ==
    IF svc \notin DOMAIN mm THEN mm
    ELSE IF version \notin DOMAIN mm[svc] THEN mm
    ELSE
      LET newEntries == SelectSeq(mm[svc][version], LAMBDA e : e # url)
          vs1 == Store(mm[svc], version, newEntries)
          vs2 == IF Len(newEntries) = 0 THEN Delete(vs1, version) ELSE vs1
      IN  IF Cardinality(DOMAIN vs2) < 1
          THEN Delete(mm, svc)
          ELSE Store(mm, svc, vs2)

\* RemoveRecord that leaves an emptied version list in place.
RecordsRemoveRecord_NoPrune(mm, svc, version, url) ==
    IF svc \notin DOMAIN mm THEN mm
    ELSE IF version \notin DOMAIN mm[svc] THEN mm
    ELSE
      LET newEntries == SelectSeq(mm[svc][version],
                                  LAMBDA e : String(e) # String(url))
      IN  Store(mm, svc, Store(mm[svc], version, newEntries))

RecordsRemoveRecord(mm, svc, version, url) ==
    IF svc \notin DOMAIN mm THEN mm
    ELSE IF version \notin DOMAIN mm[svc] THEN mm
    ELSE
      LET entries == mm[svc][version]
          newEntries == SelectSeq(entries, LAMBDA e : String(e) # String(url))
          vs1 == Store(mm[svc], version, newEntries)
          vs2 == IF Len(newEntries) = 0 THEN Delete(vs1, version) ELSE vs1
      IN  IF Cardinality(DOMAIN vs2) < 1
          THEN Delete(mm, svc)
          ELSE Store(mm, svc, vs2)

(***************************************************************************)
(* Registry actions.                                                       *)
(***************************************************************************)
NoResult == [url |-> NilURL, err |-> NilErr]

Entries(mm) ==
    { <<s, v, i>> \in Services \X Versions \X (1..(MaxEntries + 1)) :
        /\ s \in DOMAIN mm
        /\ v \in DOMAIN mm[s]
        /\ i <= Len(mm[s][v]) }

TotalEntries(mm) == Cardinality(Entries(mm))

RecordsInit ==
    /\ m = NewRecords
    /\ pre = NewRecords
    /\ last = [op |-> "NewRecords", svc |-> "", version |-> "", url |-> NilURL,
               ret |-> TRUE, res |-> NoResult]

ClearRecords ==
    /\ pre' = m
    /\ m' = RecordsClearRecords(m)
    /\ last' = [op |-> "ClearRecords", svc |-> "", version |-> "", url |-> NilURL,
                ret |-> TRUE, res |-> NoResult]
    /\ UNCHANGED <<clientVars, staticVars, lockVars>>

GetRecord ==
    \E svc \in Services, version \in Versions :
        /\ pre' = m
        /\ m' = RecordsLookup(m, svc)
        /\ last' = [op |-> "GetRecord", svc |-> svc, version |-> version,
                    url |-> NilURL, ret |-> TRUE,
                    res |-> RecordsGetRecord(m, svc, version)]
        /\ UNCHANGED <<clientVars, staticVars, lockVars>>

IsServiceUnique ==
    \E svc \in Services :
        /\ pre' = m
        /\ m' = RecordsLookup(m, svc)
        /\ last' = [op |-> "IsServiceUnique", svc |-> svc, version |-> "",
                    url |-> NilURL, ret |-> RecordsIsServiceUnique(m, svc),
                    res |-> NoResult]
        /\ UNCHANGED <<clientVars, staticVars, lockVars>>

RecordExists ==
    \E svc \in Services, version \in Versions :
        /\ pre' = m
        /\ m' = RecordsLookup(m, svc)
        /\ last' = [op |-> "RecordExists", svc |-> svc, version |-> version,
                    url |-> NilURL, ret |-> RecordsRecordExists(m, svc, version),
                    res |-> NoResult]
        /\ UNCHANGED <<clientVars, staticVars, lockVars>>

SetRecord ==
    \E svc \in Services, version \in Versions, url \in URLs :
        /\ <<svc, version>> \in Registered
        /\ TotalEntries(m) < MaxEntries
        /\ pre' = m
        /\ m' = RecordsSetRecord(m, svc, version, url).m
        /\ last' = [op |-> "SetRecord", svc |-> svc, version |-> version,
                    url |-> url, ret |-> RecordsSetRecord(m, svc, version, url).ret,
                    res |-> NoResult]
        /\ UNCHANGED <<clientVars, staticVars, lockVars>>

RemoveRecord ==
    \E svc \in Services, version \in Versions, url \in URLs :
        /\ pre' = m
        /\ m' = RecordsRemoveRecord(m, svc, version, url)
        /\ last' = [op |-> "RemoveRecord", svc |-> svc, version |-> version,
                    url |-> url, ret |-> TRUE, res |-> NoResult]
        /\ UNCHANGED <<clientVars, staticVars, lockVars>>

(***************************************************************************)
(* backend.Client.  A stage is a function of X, the Client together with   *)
(* what surrounds it: X.c the struct, X.net the dialed connection, X.log   *)
(* the collaborator calls made, X.first the first error returned, X.panic  *)
(* whether the running method panicked, X.response what                    *)
(* marshalOutputMessage returned, X.reply what the backend answered.       *)
(***************************************************************************)
\* An error: nil, a local error, or a GRPCError with the backend's status
\* code (what) and status message (msg).
NoError == [kind |-> "nil", what |-> "", msg |-> ""]

LocalError(what) == [kind |-> "local", what |-> what, msg |-> ""]

GRPCError(code, msg) == [kind |-> "grpc", what |-> code, msg |-> msg]

\* A message: the type it was allocated from and its content; content 0 is
\* the zero value.
Message(type, val) == [type |-> type, val |-> val]

EmptyMessage == Message("empty", 0)
NilMessage == Message("nil", 0)

NilJSON == "nil"

\* Request bodies: three well-formed JSON documents and a malformed one.
Bodies == {"{}", "{\"value\":1}", "{\"value\":2}", "{"}

\* What the backend answers: OK with a message content, a non-OK status, or
\* no answer (transport failure).
Replies ==
    { [kind |-> "ok", val |-> 1, code |-> "OK", msg |-> ""],
      [kind |-> "ok", val |-> 3, code |-> "OK", msg |-> ""],
      [kind |-> "grpc", val |-> 0, code |-> "Unimplemented",
       msg |-> "unary unimplemented"],
      [kind |-> "grpc", val |-> 0, code |-> "NotFound", msg |-> "no such item"],
      [kind |-> "local", val |-> 0, code |-> "", msg |-> ""] }

\* No answer: the backend was not called.
NoReply == [kind |-> "none", val |-> 0, code |-> "", msg |-> ""]

WellFormed(b) == b \in {"{}", "{\"value\":1}", "{\"value\":2}"}

\* message.unmarshalJSON: the content a well-formed body decodes to.
Decode(b) ==
    CASE b = "{\"value\":1}" -> 1
      [] b = "{\"value\":2}" -> 2
      [] OTHER -> 0

\* message.marshalJSON: the zero value is omitted.
Encode(msg) ==
    CASE msg.val = 0 -> "{}"
      [] msg.val = 1 -> "{\"value\":1}"
      [] msg.val = 2 -> "{\"value\":2}"
      [] OTHER -> "{\"value\":3}"

Logged(X, call, ok) == [X EXCEPT !.log = Append(@, [call |-> call, ok |-> ok])]

Failed(X, call, e) ==
    [Logged(X, call, FALSE) EXCEPT
        !.first = IF @ = NoError THEN e ELSE @]

NewClient ==
    [clientConn |-> "empty",
     reflectionClient |-> "empty",
     serviceDescriptor |-> "empty",
     methodDescriptor |-> "empty",
     InputMessage |-> EmptyMessage,
     OutputMessage |-> EmptyMessage,
     stub |-> "empty",
     err |-> NoError]

ClientErr(cl) == cl.err

ClientConnect(X, dialOK) ==
    IF X.c.err # NoError THEN X
    ELSE IF dialOK
    THEN [Logged(X, "newClientConn", TRUE) EXCEPT
             !.c.clientConn = "conn", !.c.err = NoError, !.net = "open"]
    ELSE [Failed(X, "newClientConn", LocalError("dial")) EXCEPT
             !.c.clientConn = "nil", !.c.err = LocalError("dial")]

\* clientConn.close(): releases the connection when there is an open one.
connClose(X, closeOK) ==
    LET Y == [X EXCEPT !.net = IF @ = "open" THEN "closed" ELSE @]
    IN  IF closeOK
        THEN [Logged(Y, "close", TRUE) EXCEPT !.c.err = NoError]
        ELSE [Failed(Y, "close", LocalError("close")) EXCEPT
                 !.c.err = LocalError("close")]

ClientCloseConn(X, closeOK) ==
    IF X.c.err # NoError THEN X
    ELSE connClose(X, closeOK)

ClientnewReflectionClient(X) ==
    IF X.c.err # NoError THEN X
    ELSE [X EXCEPT !.c.reflectionClient = "client"]

\* The reflection exchange runs over the connection: it can only succeed
\* while the connection is open.
ClientresolveService(X, resolveOK) ==
    LET X1 == ClientnewReflectionClient(X) IN
    IF X1.c.err # NoError THEN X1
    ELSE IF resolveOK /\ X1.net = "open"
    THEN [Logged(X1, "resolveService", TRUE) EXCEPT
             !.c.err = NoError, !.c.serviceDescriptor = "sd"]
    ELSE [Failed(X1, "resolveService", LocalError("resolve")) EXCEPT
             !.c.err = LocalError("resolve"), !.c.serviceDescriptor = "nil"]

ClientfindMethodByName(X, findOK) ==
    IF X.c.err # NoError THEN X
    ELSE IF findOK
    THEN [Logged(X, "findMethodByName", TRUE) EXCEPT
             !.c.err = NoError, !.c.methodDescriptor = "md"]
    ELSE [Failed(X, "findMethodByName", LocalError("method")) EXCEPT
             !.c.err = LocalError("method"), !.c.methodDescriptor = "nil"]

\* methodDescriptor.getInputType().newMessage() and its output twin.  On a
\* resolved descriptor they allocate zero-valued messages.  On an unresolved
\* one (the empty descriptor of NewClient, or the nil one of a failed lookup)
\* the dereference either faults or yields nil messages.
newMessages(X, fault) ==
    IF X.c.methodDescriptor = "md"
    THEN [Logged(X, "newMessage", TRUE) EXCEPT
             !.c.InputMessage = Message("in", 0),
             !.c.OutputMessage = Message("out", 0)]
    ELSE IF fault
    THEN [Logged(X, "newMessage", FALSE) EXCEPT !.panic = TRUE]
    ELSE [Logged(X, "newMessage", FALSE) EXCEPT
             !.c.InputMessage = NilMessage,
             !.c.OutputMessage = NilMessage]

ClientloadDescriptors(X, resolveOK, findOK, fault) ==
    IF X.c.err # NoError THEN X
    ELSE newMessages(ClientfindMethodByName(ClientresolveService(X, resolveOK),
                                            findOK),
                     fault)

ClientunmarshalInputMessage(X, b) ==
    IF X.c.err # NoError THEN X
    ELSE IF WellFormed(b)
    THEN [Logged(X, "unmarshalJSON", TRUE) EXCEPT
             !.c.InputMessage.val = Decode(b), !.c.err = NoError]
    ELSE [Failed(X, "unmarshalJSON", LocalError("decode")) EXCEPT
             !.c.err = LocalError("decode")]

\* marshalOutputMessage that encodes the output message.
ClientmarshalOutputMessage_Output(X, marshalOK) ==
    IF X.c.err # NoError THEN [X EXCEPT !.response = NilJSON]
    ELSE IF marshalOK
    THEN [Logged(X, "marshalJSON", TRUE) EXCEPT
             !.response = Encode(X.c.OutputMessage), !.c.err = NoError]
    ELSE [Failed(X, "marshalJSON", LocalError("encode")) EXCEPT
             !.response = NilJSON, !.c.err = LocalError("encode")]

ClientmarshalOutputMessage(X, marshalOK) ==
    IF X.c.err # NoError THEN [X EXCEPT !.response = NilJSON]
    ELSE IF marshalOK
    THEN [Logged(X, "marshalJSON", TRUE) EXCEPT
             !.response = Encode(X.c.InputMessage), !.c.err = NoError]
    ELSE [Failed(X, "marshalJSON", LocalError("encode")) EXCEPT
             !.response = NilJSON, !.c.err = LocalError("encode")]

ClientnewStub(X) ==
    IF X.c.err # NoError THEN X
    ELSE [X EXCEPT !.c.stub = "stub"]

\* stub.invokeRPC: the output message on an OK status, no message and a
\* GRPCError on a non-OK status, no message and a local error otherwise.  The
\* backend answers only over an open connection.
stubInvokeRPC(X, reply) ==
    CASE reply.kind = "ok" /\ X.net = "open" ->
           [Logged(X, "invokeRPC", TRUE) EXCEPT
               !.reply = reply,
               !.c.err = NoError, !.c.OutputMessage = Message("out", reply.val)]
      [] reply.kind = "grpc" /\ X.net = "open" ->
           [Failed(X, "invokeRPC", GRPCError(reply.code, reply.msg)) EXCEPT
               !.reply = reply,
               !.c.err = GRPCError(reply.code, reply.msg),
               !.c.OutputMessage = NilMessage]
      [] OTHER ->
           [Failed(X, "invokeRPC", LocalError("transport")) EXCEPT
               !.reply = [NoReply EXCEPT !.kind = "local"],
               !.c.err = LocalError("transport"), !.c.OutputMessage = NilMessage]

\* invokeRPC that stores the error and keeps the allocated output message.
ClientinvokeRPC_KeepsOutput(X, reply) ==
    LET X1 == ClientnewStub(X) IN
    IF X1.c.err # NoError THEN X1
    ELSE [stubInvokeRPC(X1, reply) EXCEPT
             !.c.OutputMessage =
                 IF reply.kind = "ok" THEN @ ELSE X1.c.OutputMessage]

\* invokeRPC that calls the backend whatever the error field holds.
ClientinvokeRPC_Ungated(X, reply) == stubInvokeRPC(ClientnewStub(X), reply)

ClientinvokeRPC(X, reply) ==
    LET X1 == ClientnewStub(X) IN
    IF X1.c.err # NoError THEN X1
    ELSE stubInvokeRPC(X1, reply)

\* The inputs of one Call: what each collaborator answers, and the body.
CallInputs ==
    [resolveOK : BOOLEAN, findOK : BOOLEAN, fault : BOOLEAN, body : Bodies,
     reply : Replies, marshalOK : BOOLEAN]

ClientCall(X, in) ==
    LET X1 == ClientloadDescriptors(X, in.resolveOK, in.findOK, in.fault) IN
    IF X1.panic THEN X1
    ELSE ClientmarshalOutputMessage(
             ClientinvokeRPC(ClientunmarshalInputMessage(X1, in.body), in.reply),
             in.marshalOK)

(***************************************************************************)
(* Client actions: the exported methods, called in any order.              *)
(***************************************************************************)
Here ==
    [c |-> c, net |-> net, log |-> log, first |-> firstErr, panic |-> FALSE,
     response |-> NilJSON, reply |-> NoReply]

Returned(op, X) ==
    /\ c' = X.c
    /\ net' = X.net
    /\ log' = X.log
    /\ firstErr' = X.first
    /\ ops' = Append(ops, op)
    /\ ret' = [op |-> op, response |-> X.response,
               err |-> IF X.panic THEN NoError ELSE ClientErr(X.c),
               panic |-> X.panic, reply |-> X.reply, from |-> Len(log)]
    /\ UNCHANGED <<regVars, staticVars, lockVars>>

ClientInit ==
    /\ c = NewClient
    /\ net = "none"
    /\ log = <<>>
    /\ firstErr = NoError
    /\ ops = <<>>
    /\ ret = [op |-> "NewClient", response |-> NilJSON, err |-> NoError,
              panic |-> FALSE, reply |-> NoReply, from |-> 0]

Called(op) == \E i \in 1..Len(ops) : ops[i] = op

\* The caller connects first; it does not connect a Client that holds a
\* connection (open or closed) again.
Connect ==
    \E dialOK \in BOOLEAN :
        /\ Len(ops) < MaxOps
        /\ net = "none"
        /\ Returned("Connect", ClientConnect(Here, dialOK))

Call ==
    \E in \in CallInputs :
        /\ Len(ops) < MaxOps
        /\ Called("Connect")
        /\ Returned("Call", ClientCall(Here, in))

CloseConn ==
    \E closeOK \in BOOLEAN :
        /\ Len(ops) < MaxOps
        /\ Called("Connect")
        /\ Returned("CloseConn", ClientCloseConn(Here, closeOK))

(***************************************************************************)
(* The Static resolver.  Its records are the registry m; a mapping file is *)
(* missing, undecodable, or a YAML mapping from (service, version) to a    *)
(* raw address.  Go ranges over the decoded maps in no fixed order, so the *)
(* order in which NewRecordsFromYAML meets the entries is an input.        *)
(***************************************************************************)
YAMLPairs == {<<"a", "">>, <<"a", "v1">>, <<"b", "v1">>, <<"b", "v2">>}

RawURLs == {"http://x", "http://y", ":bad"}

\* The raw addresses url.Parse rejects (":bad" has no scheme).
BadRawURLs == {":bad"}

NoMapping == [p \in {} |-> ""]

Files ==
    { [kind |-> "missing", rawMapping |-> NoMapping],
      [kind |-> "invalid", rawMapping |-> NoMapping] }
    \cup { [kind |-> "yaml", rawMapping |-> rm] :
             rm \in UNION {[D -> RawURLs] : D \in SUBSET YAMLPairs} }

Perms(S) ==
    {o \in [1..Cardinality(S) -> S] : \A x \in S : \E i \in DOMAIN o : o[i] = x}

\* The orders of the nested range loops: the entries of one service are
\* met one after the other.
Orders(rawMapping) ==
    {o \in Perms(DOMAIN rawMapping) :
        \A i, j \in DOMAIN o :
            (i < j /\ o[i][1] = o[j][1]) => \A k \in i..j : o[k][1] = o[i][1]}

\* url.Parse(rawurl): a new URL value whose string form is rawurl, or an
\* error.
urlParse(service, version, rawurl) ==
    IF rawurl \in BadRawURLs
    THEN [u |-> NilURL, err |-> "parse"]
    ELSE [u |-> [ptr |-> service \o "/" \o version, str |-> rawurl], err |-> ""]

\* (nil, err)
NilRecords(err) == [nil |-> TRUE, r |-> EmptyMap, err |-> err]

\* The loops that leave out the entries they cannot parse.
RECURSIVE loadEntries_SkipBad(_, _, _)
loadEntries_SkipBad(r, rawMapping, order) ==
    IF order = <<>> THEN [nil |-> FALSE, r |-> r, err |-> ""]
    ELSE LET service == Head(order)[1]
             version == Head(order)[2]
             parsed == urlParse(service, version, rawMapping[Head(order)])
         IN  IF parsed.err # ""
             THEN loadEntries_SkipBad(r, rawMapping, Tail(order))
             ELSE loadEntries_SkipBad(
                      RecordsSetRecord(r, service, version, parsed.u).m,
                      rawMapping, Tail(order))

RECURSIVE loadEntries(_, _, _)
loadEntries(r, rawMapping, order) ==
    IF order = <<>> THEN [nil |-> FALSE, r |-> r, err |-> ""]
    ELSE LET service == Head(order)[1]
             version == Head(order)[2]
             parsed == urlParse(service, version, rawMapping[Head(order)])
         IN  IF parsed.err # ""
             THEN NilRecords(parsed.err)
             ELSE loadEntries(RecordsSetRecord(r, service, version, parsed.u).m,
                              rawMapping, Tail(order))

\* NewRecordsFromYAML that loads what it can parse.
NewRecordsFromYAML_SkipBad(file, order) ==
    CASE file.kind = "missing" -> NilRecords("open")
      [] file.kind = "invalid" -> NilRecords("decode")
      [] OTHER -> loadEntries_SkipBad(NewRecords, file.rawMapping, order)

NewRecordsFromYAML(file, order) ==
    CASE file.kind = "missing" -> NilRecords("open")
      [] file.kind = "invalid" -> NilRecords("decode")
      [] OTHER -> loadEntries(NewRecords, file.rawMapping, order)

\* NewStatic returns a Static in every case; logged tells whether it logged
\* a load failure.
StaticNewStatic(file, order) ==
    LET res == NewRecordsFromYAML(file, order) IN
    IF res.err # ""
    THEN [records |-> NewRecords, logged |-> TRUE]
    ELSE [records |-> res.r, logged |-> FALSE]

\* Static.Resolve: GetRecord on the Static's records; an error is logged and
\* returned with a nil address.
StaticResolve(mm, svc, version) ==
    LET res == RecordsGetRecord(mm, svc, version) IN
    [m |-> RecordsLookup(mm, svc),
     res |-> IF res.err # NilErr THEN [url |-> NilURL, err |-> res.err]
             ELSE [url |-> res.url, err |-> NilErr]]

NoStatic ==
    [made |-> FALSE, file |-> [kind |-> "missing", rawMapping |-> NoMapping],
     order |-> <<>>, logged |-> FALSE]

StaticInit ==
    /\ static = NoStatic
    /\ loaded = NewRecords

NewStatic ==
    /\ ~static.made
    /\ \E file \in Files :
         \E order \in Orders(file.rawMapping) :
            LET local == StaticNewStatic(file, order) IN
            /\ static' = [made |-> TRUE, file |-> file, order |-> order,
                          logged |-> local.logged]
            /\ pre' = m
            /\ m' = local.records
            /\ loaded' = local.records
            /\ last' = [op |-> "NewStatic", svc |-> "", version |-> "",
                        url |-> NilURL, ret |-> TRUE, res |-> NoResult]
    /\ UNCHANGED <<clientVars, lockVars>>

Resolve ==
    /\ static.made
    /\ \E svc \in Services, version \in Versions :
         LET r == StaticResolve(m, svc, version) IN
         /\ pre' = m
         /\ m' = r.m
         /\ last' = [op |-> "Resolve", svc |-> svc, version |-> version,
                     url |-> NilURL, ret |-> TRUE, res |-> r.res]
    /\ UNCHANGED <<clientVars, staticVars, lockVars>>

\* The read operations called on the Static's records.
StaticGetRecord == static.made /\ GetRecord

StaticIsServiceUnique == static.made /\ IsServiceUnique

StaticRecordExists == static.made /\ RecordExists


(***************************************************************************)
(* The registry under concurrent goroutines.  Each operation is run        *)
(* statement by statement: it takes Records.mutex in its mode, runs its    *)
(* body on the mapping m one access at a time, and releases the mutex on   *)
(* return.  A sync.RWMutex admits any number of readers or one writer; a   *)
(* writer that waits keeps new readers out.                                *)
(***************************************************************************)
Procs == {"g1", "g2"}

NoProc == "none"

URLOf(ptr) == CHOOSE u \in URLs : u.ptr = ptr

\* The calls the goroutines make; they cover every return path of every
\* operation.
LockJobs ==
    { [op |-> "SetRecord", svc |-> "a", version |-> "v1", url |-> URLOf("u1")],
      [op |-> "SetRecord", svc |-> "a", version |-> "", url |-> URLOf("u3")],
      [op |-> "RemoveRecord", svc |-> "a", version |-> "v1", url |-> URLOf("u2")],
      [op |-> "RemoveRecord", svc |-> "a", version |-> "v2", url |-> URLOf("u1")],
      [op |-> "RemoveRecord", svc |-> "b", version |-> "v1", url |-> URLOf("u1")],
      [op |-> "ClearRecords", svc |-> "", version |-> "", url |-> NilURL],
      [op |-> "GetRecord", svc |-> "a", version |-> "", url |-> NilURL],
      [op |-> "GetRecord", svc |-> "a", version |-> "v1", url |-> NilURL],
      [op |-> "GetRecord", svc |-> "b", version |-> "v1", url |-> NilURL],
      [op |-> "IsServiceUnique", svc |-> "a", version |-> "", url |-> NilURL],
      [op |-> "RecordExists", svc |-> "a", version |-> "v1", url |-> NilURL],
      [op |-> "RecordExists", svc |-> "a", version |-> "v2", url |-> NilURL] }

\* What a reader returns: GetRecord's (url, err) or the others' bool.
NoAnswer == [url |-> NilURL, err |-> NilErr, b |-> FALSE]

\* No mutation returned while the operation was running.
NoMut ==
    [on |-> FALSE, op |-> "none", svc |-> "", version |-> "", url |-> NilURL,
     before |-> EmptyMap, after |-> EmptyMap]

\* Besides the call and the statement k it is at, a job keeps, until the
\* operation returns: the mapping a reader read, or the mapping a mutator
\* found when it got the mutex (seen); the last mutation that returned
\* while this operation was running, with the mapping before and after it
\* (mut).  It keeps for good what a reader returned (res) and whether a
\* mutator was part-way through its body at that read (torn).
NoJob ==
    [op |-> "none", svc |-> "", version |-> "", url |-> NilURL, k |-> 0,
     early |-> FALSE, res |-> NoAnswer, seen |-> EmptyMap, torn |-> FALSE,
     mut |-> NoMut]

\* Every operation takes the mutex shared.
LockMode_AllShared(op) == "read"

\* SetRecord that takes the mutex shared.
LockMode_SetRecordShared(op) ==
    IF op \in {"ClearRecords", "RemoveRecord"} THEN "write" ELSE "read"

\* The mode in which an operation takes the mutex: Lock or RLock.
LockMode(op) ==
    IF op \in {"ClearRecords", "SetRecord", "RemoveRecord"} THEN "write"
    ELSE "read"

\* An operation whose early returns leave without unlocking.
Unlocks_NotOnEarlyReturn(op, early) == ~early

\* Whether an operation returning (early or at its end) unlocks the mutex:
\* the deferred unlocks run on every return, and IsServiceUnique has one
\* return.
Unlocks(op, early) == TRUE

RWMutexFree == [writer |-> NoProc, readers |-> {}, pending |-> {}]

CanRLock(mu) == mu.writer = NoProc /\ mu.pending = {}

RLock(mu, g) == [mu EXCEPT !.readers = @ \cup {g}]

RUnlock(mu, g) == [mu EXCEPT !.readers = @ \ {g}]

\* Lock announces the writer, then waits for the mutex to be free.
LockBegin(mu, g) == [mu EXCEPT !.pending = @ \cup {g}]

CanLock(mu) == mu.writer = NoProc /\ mu.readers = {}

Lock(mu, g) == [mu EXCEPT !.writer = g, !.pending = @ \ {g}]

Unlock(mu, g) == [mu EXCEPT !.writer = NoProc]

\* Statement j.k of the body of operation j.op on the mapping mm: the
\* mapping it leaves, the statement that follows (0: return) and whether
\* the return is an early one.
RecordsStep(mm, j) ==
    CASE j.op = "ClearRecords" ->
           [m |-> EmptyMap, k |-> 0, early |-> FALSE]
      [] j.op = "SetRecord" /\ j.k = 1 ->
           [m |-> IF j.svc \notin DOMAIN mm THEN Store(mm, j.svc, EmptyMap)
                  ELSE mm,
            k |-> 2, early |-> FALSE]
      [] j.op = "SetRecord" /\ j.k = 2 ->
           [m |-> IF j.version \notin DOMAIN mm[j.svc]
                  THEN Store(mm, j.svc, Store(mm[j.svc], j.version, <<>>))
                  ELSE mm,
            k |-> 3, early |-> FALSE]
      [] j.op = "SetRecord" /\ j.k = 3 ->
           [m |-> Store(mm, j.svc, Store(mm[j.svc], j.version,
                                         Append(mm[j.svc][j.version], j.url))),
            k |-> 0, early |-> FALSE]
      [] j.op = "RemoveRecord" /\ j.k = 1 ->
           IF j.svc \notin DOMAIN mm \/ j.version \notin DOMAIN mm[j.svc]
           THEN [m |-> mm, k |-> 0, early |-> TRUE]
           ELSE [m |-> Store(mm, j.svc,
                             Store(mm[j.svc], j.version,
                                   SelectSeq(mm[j.svc][j.version],
                                       LAMBDA e : String(e) # String(j.url)))),
                 k |-> 2, early |-> FALSE]
      [] j.op = "RemoveRecord" /\ j.k = 2 ->
           [m |-> IF Len(mm[j.svc][j.version]) = 0
                  THEN Store(mm, j.svc, Delete(mm[j.svc], j.version))
                  ELSE mm,
            k |-> 3, early |-> FALSE]
      [] j.op = "RemoveRecord" /\ j.k = 3 ->
           [m |-> IF Cardinality(DOMAIN mm[j.svc]) < 1 THEN Delete(mm, j.svc)
                  ELSE mm,
            k |-> 0, early |-> FALSE]
      [] j.op = "GetRecord" ->
           [m |-> RecordsLookup(mm, j.svc), k |-> 0,
            early |-> RecordsGetRecord(mm, j.svc, j.version).err # NilErr]
      [] j.op = "RecordExists" ->
           [m |-> mm, k |-> 0,
            early |-> (j.svc \notin DOMAIN mm
                       \/ j.version \notin DOMAIN mm[j.svc])]
      [] OTHER ->
           [m |-> mm, k |-> 0, early |-> FALSE]

\* What the body of a reader computes from the mapping.
RecordsRead(mm, j) ==
    CASE j.op = "GetRecord" ->
           [url |-> RecordsGetRecord(mm, j.svc, j.version).url,
            err |-> RecordsGetRecord(mm, j.svc, j.version).err, b |-> FALSE]
      [] j.op = "IsServiceUnique" ->
           [url |-> NilURL, err |-> NilErr,
            b |-> RecordsIsServiceUnique(mm, j.svc)]
      [] j.op = "RecordExists" ->
           [url |-> NilURL, err |-> NilErr,
            b |-> RecordsRecordExists(mm, j.svc, j.version)]
      [] OTHER -> NoAnswer

Readers == {"GetRecord", "IsServiceUnique", "RecordExists"}

\* Some mutator has run a statement of its body and has statements left.
MidMutation ==
    \E h \in Procs :
        /\ pc[h] = "body"
        /\ job[h].op \notin Readers
        /\ job[h].k > 1

LockInit ==
    /\ mutex = RWMutexFree
    /\ pc = [g \in Procs |-> "idle"]
    /\ job = [g \in Procs |-> NoJob]
    /\ calls = 0

Running(op) == {g \in Procs : pc[g] # "idle" /\ job[g].op = op}

\* A goroutine calls a registry operation.
Invoke(g) ==
    /\ pc[g] = "idle"
    /\ calls < MaxCalls
    /\ \E j \in LockJobs :
         /\ (j.op = "SetRecord") =>
               TotalEntries(m) + Cardinality(Running("SetRecord")) < MaxEntries
         /\ job' = [job EXCEPT ![g] = [op |-> j.op, svc |-> j.svc,
                                       version |-> j.version, url |-> j.url,
                                       k |-> 1, early |-> FALSE,
                                       res |-> NoAnswer, seen |-> EmptyMap,
                                       torn |-> FALSE, mut |-> NoMut]]
    /\ pc' = [pc EXCEPT ![g] = "acquire"]
    /\ calls' = calls + 1
    /\ UNCHANGED <<mutex, regVars, clientVars, staticVars>>

\* r.mutex.Lock() begins: the writer is announced.
Announce(g) ==
    /\ pc[g] = "acquire"
    /\ LockMode(job[g].op) = "write"
    /\ g \notin mutex.pending
    /\ mutex' = LockBegin(mutex, g)
    /\ UNCHANGED <<pc, job, calls, regVars, clientVars, staticVars>>

\* r.mutex.Lock() or r.mutex.RLock() returns.
Acquire(g) ==
    /\ pc[g] = "acquire"
    /\ IF LockMode(job[g].op) = "write"
       THEN /\ g \in mutex.pending
            /\ CanLock(mutex)
            /\ mutex' = Lock(mutex, g)
       ELSE /\ CanRLock(mutex)
            /\ mutex' = RLock(mutex, g)
    /\ pc' = [pc EXCEPT ![g] = "body"]
    /\ job' = [job EXCEPT ![g].seen = IF job[g].op \in Readers THEN @ ELSE m]
    /\ UNCHANGED <<calls, regVars, clientVars, staticVars>>

\* One statement of the body.
Step(g) ==
    /\ pc[g] = "body"
    /\ LET r == RecordsStep(m, job[g])
       IN
       /\ m' = r.m
       /\ job' = [job EXCEPT ![g].k = r.k, ![g].early = r.early,
                              ![g].res = RecordsRead(m, job[g]),
                              ![g].seen = IF job[g].op \in Readers THEN m ELSE @,
                              ![g].torn = job[g].op \in Readers /\ MidMutation]
       /\ pc' = [pc EXCEPT ![g] = IF r.k = 0 THEN "return" ELSE "body"]
    /\ UNCHANGED <<mutex, calls, pre, last, clientVars, staticVars>>

\* The operation returns, running its unlock.
Release(g) ==
    /\ pc[g] = "return"
    /\ mutex' = IF ~Unlocks(job[g].op, job[g].early) THEN mutex
                ELSE IF LockMode(job[g].op) = "write" THEN Unlock(mutex, g)
                ELSE RUnlock(mutex, g)
    /\ pc' = [pc EXCEPT ![g] = "idle"]
    /\ job' = [h \in Procs |->
                  IF h = g
                  THEN [job[g] EXCEPT !.seen = EmptyMap, !.mut = NoMut]
                  ELSE IF pc[h] # "idle" /\ job[g].op \notin Readers
                  THEN [job[h] EXCEPT
                           !.mut = [on |-> TRUE, op |-> job[g].op,
                                    svc |-> job[g].svc,
                                    version |-> job[g].version,
                                    url |-> job[g].url,
                                    before |-> job[g].seen, after |-> m]]
                  ELSE job[h]]
    /\ UNCHANGED <<calls, regVars, clientVars, staticVars>>

\* What a goroutine does once it has called an operation.
Run(g) == Announce(g) \/ Acquire(g) \/ Step(g) \/ Release(g)

(***************************************************************************)
(* Specifications.                                                         *)
(***************************************************************************)
Init == RecordsInit /\ ClientInit /\ StaticInit /\ LockInit

Next ==
    \/ ClearRecords
    \/ GetRecord
    \/ SetRecord
    \/ RemoveRecord
    \/ IsServiceUnique
    \/ RecordExists

Spec == Init /\ [][Next]_vars

ClientNext ==
    \/ Connect
    \/ Call
    \/ CloseConn

ClientSpec == Init /\ [][ClientNext]_vars

StaticNext ==
    \/ NewStatic
    \/ Resolve
    \/ StaticGetRecord
    \/ StaticIsServiceUnique
    \/ StaticRecordExists

StaticSpec == Init /\ [][StaticNext]_vars

LockNext ==
    \E g \in Procs :
        \/ Invoke(g)
        \/ Announce(g)
        \/ Acquire(g)
        \/ Step(g)
        \/ Release(g)

\* Every goroutine that has called an operation keeps being scheduled.
LockFairness == \A g \in Procs : WF_vars(Run(g))

LockSpec == Init /\ [][LockNext]_vars /\ LockFairness

(***************************************************************************)
(* Properties of the registry (checked under Spec).                        *)
(***************************************************************************)
VersionsOf(mm, s) == IF s \in DOMAIN mm THEN DOMAIN mm[s] ELSE {}

ListOf(mm, s, v) == IF v \in VersionsOf(mm, s) THEN mm[s][v] ELSE <<>>

SameString(a, b) == String(a) = String(b)

Without(list, a) == SelectSeq(list, LAMBDA e : ~SameString(e, a))

Holds(list, a) == \E i \in 1..Len(list) : SameString(list[i], a)

\* C1: GetRecord(s, "") returns ServiceUnresolvable for an unknown s, the
\* single address when s has one version with one address,
\* VersionNotSpecified when s has two or more versions, VersionUndecidable
\* when s has one version with two or more addresses, and nothing else.
C1_GetRecordUnspecified ==
    (last.op = "GetRecord" /\ last.version = "") =>
        LET s == last.svc
            vs == VersionsOf(m, s)
        IN  \/ /\ s \notin DOMAIN m
               /\ last.res.err.Code = "ServiceUnresolvable"
               /\ last.res.url = NilURL
            \/ /\ s \in DOMAIN m
               /\ Cardinality(vs) = 1
               /\ \E v \in vs : /\ Len(m[s][v]) = 1
                                /\ last.res = [url |-> m[s][v][1], err |-> NilErr]
            \/ /\ s \in DOMAIN m
               /\ Cardinality(vs) >= 2
               /\ last.res.err.Code = "VersionNotSpecified"
               /\ last.res.url = NilURL
            \/ /\ s \in DOMAIN m
               /\ Cardinality(vs) = 1
               /\ \E v \in vs : Len(m[s][v]) >= 2
               /\ last.res.err.Code = "VersionUndecidable"
               /\ last.res.url = NilURL

\* GetRecord(s, "") answered VersionNotSpecified for a service with three
\* versions, one of them the "" version.
C1_Witness ==
    /\ last.op = "GetRecord"
    /\ last.version = ""
    /\ Cardinality(VersionsOf(m, last.svc)) = 3
    /\ "" \in VersionsOf(m, last.svc)
    /\ last.res.err.Code = "VersionNotSpecified"

\* C2: for a non-empty version v, GetRecord(s, v) returns ServiceUnresolvable
\* and no address when s or (s, v) is unknown, VersionUndecidable when
\* (s, v) holds more than one address, and the address with no error exactly
\* when (s, v) holds one address, whatever other versions s has.
C2_GetRecordVersioned ==
    (last.op = "GetRecord" /\ last.version # "") =>
        LET s == last.svc
            v == last.version
        IN  /\ (s \notin DOMAIN m \/ v \notin VersionsOf(m, s)) =>
                  /\ last.res.err.Code = "ServiceUnresolvable"
                  /\ last.res.url = NilURL
            /\ (v \in VersionsOf(m, s) /\ Len(m[s][v]) > 1) =>
                  /\ last.res.err.Code = "VersionUndecidable"
                  /\ last.res.url = NilURL
            /\ (last.res.err = NilErr) <=>
                  (v \in VersionsOf(m, s) /\ Len(m[s][v]) = 1)
            /\ (last.res.err = NilErr) => last.res.url = m[s][v][1]

\* GetRecord(s, v) returned the address of (s, v) while s has other versions.
C2_Witness ==
    /\ last.op = "GetRecord"
    /\ last.version # ""
    /\ Cardinality(VersionsOf(m, last.svc)) >= 2
    /\ last.res.err = NilErr
    /\ last.res.url \in URLs

\* C7 as stated: right after SetRecord(s, v, a), GetRecord(s, v) returns a
\* and no error, from every registry state.
C7_Original ==
    (last.op = "SetRecord") =>
        RecordsGetRecord(m, last.svc, last.version) =
            [url |-> last.url, err |-> NilErr]

\* C7 amended: right after SetRecord(s, v, a) on a registry where (s, v) held
\* no address and, when v is "", where s had no version at all,
\* GetRecord(s, v) returns a and no error.
C7_SetThenGet ==
    (/\ last.op = "SetRecord"
     /\ ListOf(pre, last.svc, last.version) = <<>>
     /\ (last.version = "" => last.svc \notin DOMAIN pre)) =>
        RecordsGetRecord(m, last.svc, last.version) =
            [url |-> last.url, err |-> NilErr]

\* SetRecord added a new version to a service that already had another one.
C7_Witness ==
    /\ last.op = "SetRecord"
    /\ last.version # ""
    /\ last.svc \in DOMAIN pre
    /\ ListOf(pre, last.svc, last.version) = <<>>
    /\ ListOf(m, last.svc, last.version) = <<last.url>>

\* What SetRecord(s, v, a) does to the mapping: returns true, appends a to
\* the end of the (s, v) list without deduplication, creates the service and
\* version when absent, leaves every other list as it was.
SetRecordEffect ==
    (last.op = "SetRecord") =>
        /\ last.ret = TRUE
        /\ DOMAIN m = DOMAIN pre \cup {last.svc}
        /\ \A s \in Services :
              VersionsOf(m, s) =
                  VersionsOf(pre, s) \cup
                      (IF s = last.svc THEN {last.version} ELSE {})
        /\ \A s \in Services, v \in Versions :
              ListOf(m, s, v) =
                  IF s = last.svc /\ v = last.version
                  THEN Append(ListOf(pre, s, v), last.url)
                  ELSE ListOf(pre, s, v)

C9_RemoveRecord ==
    (last.op = "RemoveRecord") =>
        LET s == last.svc
            v == last.version
            a == last.url
        IN  /\ \A t \in Services, w \in Versions :
                  ListOf(m, t, w) =
                      IF t = s /\ w = v
                      THEN Without(ListOf(pre, t, w), a)
                      ELSE ListOf(pre, t, w)
            /\ ~Holds(ListOf(pre, s, v), a) => m = pre
            /\ RecordsRemoveRecord(m, s, v, a) = m

\* One RemoveRecord took two entries with the same canonical string (two
\* different addresses) out of a list of three and kept the third.
C9_Witness ==
    /\ last.op = "RemoveRecord"
    /\ Len(ListOf(pre, last.svc, last.version)) = 3
    /\ Len(ListOf(m, last.svc, last.version)) = 1
    /\ \E i, j \in 1..3 :
          /\ ListOf(pre, last.svc, last.version)[i] #
                ListOf(pre, last.svc, last.version)[j]
          /\ SameString(ListOf(pre, last.svc, last.version)[i], last.url)
          /\ SameString(ListOf(pre, last.svc, last.version)[j], last.url)

\* C10: between operations no service maps to an empty version map and no
\* (service, version) maps to an empty list; removing the last address of a
\* version deletes the version key, removing the last version deletes the
\* service key.
C10_NoEmptyEntries ==
    /\ \A s \in DOMAIN m :
          /\ DOMAIN m[s] # {}
          /\ \A v \in DOMAIN m[s] : Len(m[s][v]) > 0
    /\ (last.op = "RemoveRecord" /\ Without(ListOf(pre, last.svc, last.version),
                                            last.url) = <<>>) =>
          /\ last.version \notin VersionsOf(m, last.svc)
          /\ (VersionsOf(pre, last.svc) \subseteq {last.version}) =>
                last.svc \notin DOMAIN m

\* RemoveRecord took the last address of the last version of a service: the
\* service is gone.
C10_Witness ==
    /\ last.op = "RemoveRecord"
    /\ VersionsOf(pre, last.svc) = {last.version}
    /\ Len(pre[last.svc][last.version]) = 1
    /\ last.svc \notin DOMAIN m

(***************************************************************************)
(* Properties of the Client (checked under ClientSpec).                    *)
(***************************************************************************)
CalledBeforeLast(op) == \E i \in 1..(Len(ops) - 1) : ops[i] = op

\* C3: the Client's error is sticky: Err() after any sequence of Connect,
\* Call and CloseConn is the first error any stage produced, and no stage
\* changes it once it is set.
C3_StickyError == ClientErr(c) = firstErr

\* CloseConn and a second Call ran after resolveService had failed, and
\* Err() still reports the resolution failure.
C3_Witness ==
    /\ Len(ops) >= 3
    /\ ret.op = "CloseConn"
    /\ CalledBeforeLast("Call")
    /\ firstErr = LocalError("resolve")
    /\ ClientErr(c) = LocalError("resolve")

\* C4: once Connect has succeeded, a CloseConn called after Call leaves the
\* connection closed, whether or not an earlier stage set the error.
C4_ConnectionReleased ==
    (/\ ret.op = "CloseConn"
     /\ CalledBeforeLast("Call")
     /\ net # "none") => net = "closed"

\* C5: once a stage has failed no later stage does any work: no collaborator
\* call follows a failed one, the allocation step in particular does not run
\* after a failed resolveService or findMethodByName, and Call returns
\* instead of faulting on the unresolved descriptor.
C5_StagesGated ==
    /\ \A i, j \in 1..Len(log) : (i < j) => log[i].ok
    /\ ~ret.panic

\* C6: when every stage of Call succeeds, the response is the JSON encoding
\* of the output message stored by invokeRPC, and the error is nil.
C6_ResponseEncodesOutput ==
    (/\ ret.op = "Call"
     /\ ~ret.panic
     /\ ClientErr(c) = NoError) =>
        /\ ret.err = NoError
        /\ ret.response = Encode(c.OutputMessage)

(***************************************************************************)
(* More properties of the registry (checked under Spec).                   *)
(***************************************************************************)
\* The versions of s that hold at least one address.
LiveVersions(mm, s) == {v \in Versions : Len(ListOf(mm, s, v)) > 0}

\* C11: after any sequence of SetRecord/RemoveRecord/ClearRecords,
\* IsServiceUnique(s) is true iff exactly one version of s holds at least one
\* address, however many addresses it holds; it is false for an unknown
\* service and for a service whose versions were all removed.
C11_IsServiceUnique ==
    /\ (last.op = "IsServiceUnique") =>
          /\ last.ret <=> (Cardinality(LiveVersions(m, last.svc)) = 1)
          /\ (last.svc \notin DOMAIN m) => ~last.ret
    /\ \A s \in Services :
          RecordsIsServiceUnique(m, s) <=> (Cardinality(LiveVersions(m, s)) = 1)

\* IsServiceUnique answered true for a service whose only version holds two
\* addresses.
C11_Witness ==
    /\ last.op = "IsServiceUnique"
    /\ last.ret
    /\ \E v \in Versions : Len(ListOf(m, last.svc, v)) = 2

\* C12: RecordExists(s, v) is true iff the (s, v) list holds at least one
\* address, and, for non-empty v, exactly when GetRecord(s, v) does not
\* return ServiceUnresolvable.
C12_RecordExists ==
    /\ (last.op = "RecordExists") =>
          (last.ret <=> (Len(ListOf(m, last.svc, last.version)) > 0))
    /\ \A s \in Services, v \in Versions \ {""} :
          RecordsRecordExists(m, s, v) <=>
              (RecordsGetRecord(m, s, v).err.Code # "ServiceUnresolvable")

\* RecordExists answered false for a version a known service does not have.
C12_Witness ==
    /\ last.op = "RecordExists"
    /\ ~last.ret
    /\ last.version # ""
    /\ last.svc \in DOMAIN m

\* C16: right after ClearRecords, for every s and v, GetRecord(s, v) returns
\* ServiceUnresolvable and RecordExists(s, v) and IsServiceUnique(s) return
\* false; a SetRecord on the cleared registry yields exactly its own record.
C16_ClearRecords ==
    /\ (last.op = "ClearRecords") =>
          \A s \in Services, v \in Versions :
              /\ RecordsGetRecord(m, s, v).err.Code = "ServiceUnresolvable"
              /\ RecordsGetRecord(m, s, v).url = NilURL
              /\ ~RecordsRecordExists(m, s, v)
              /\ ~RecordsIsServiceUnique(m, s)
    /\ (last.op = "SetRecord" /\ pre = EmptyMap) =>
          /\ RecordsGetRecord(m, last.svc, last.version) =
                [url |-> last.url, err |-> NilErr]
          /\ TotalEntries(m) = 1

\* ClearRecords emptied a registry that held three addresses.
C16_Witness ==
    /\ last.op = "ClearRecords"
    /\ TotalEntries(pre) = 3
    /\ m = EmptyMap

\* C17: as SetRecord's comment says, SetRecord(s, "", a) does not return true
\* when (s, "") already holds an address, and invalidates that entry.
C17_BlankVersionOverwriteFails ==
    (/\ last.op = "SetRecord"
     /\ last.version = ""
     /\ ListOf(pre, last.svc, "") # <<>>) =>
        /\ last.ret = FALSE
        /\ ListOf(m, last.svc, "") = <<>>

(***************************************************************************)
(* More properties of the Client (checked under ClientSpec).               *)
(***************************************************************************)
\* The collaborator calls the last exported method made.
LastCalls == SubSeq(log, ret.from + 1, Len(log))

Made(evs, call) == {i \in 1..Len(evs) : evs[i].call = call}

\* C14: on a non-OK status invokeRPC yields a GRPCError with exactly the
\* backend's status code and message, not a local error, and a nil output
\* message; the Client's OutputMessage is nil and Call returns a nil
\* response with that error.  On an OK status the output message is non-nil
\* and invokeRPC's error is nil.
C14_BackendStatus ==
    /\ (ret.op = "Call" /\ ret.reply.kind = "grpc") =>
          /\ ClientErr(c).kind = "grpc"
          /\ ClientErr(c).what = ret.reply.code
          /\ ClientErr(c).msg = ret.reply.msg
          /\ c.OutputMessage = NilMessage
          /\ ret.response = NilJSON
          /\ ret.err = ClientErr(c)
    /\ (ret.op = "Call" /\ ret.reply.kind = "ok") =>
          /\ c.OutputMessage = Message("out", ret.reply.val)
          /\ c.OutputMessage # NilMessage
          /\ ret.err \in {NoError, LocalError("encode")}

\* The backend answered NotFound: Call returned no response and the
\* GRPCError.
C14_Witness ==
    /\ ret.op = "Call"
    /\ ret.reply.kind = "grpc"
    /\ ret.err = GRPCError("NotFound", "no such item")
    /\ ret.response = NilJSON
    /\ c.OutputMessage = NilMessage

\* C18: within one Call the backend is invoked at most once, and only after
\* a successful Connect and after service resolution, method lookup, message
\* allocation and input decoding have succeeded in that order; when one of
\* them failed there is no invocation and Call returns a nil response
\* together with the first error.
C18_InvokedOnceInOrder ==
    (ret.op = "Call") =>
        /\ Cardinality(Made(LastCalls, "invokeRPC")) <= 1
        /\ (Made(LastCalls, "invokeRPC") # {}) =>
              /\ c.clientConn = "conn"
              /\ Len(LastCalls) >= 5
              /\ [i \in 1..5 |-> LastCalls[i].call] =
                    <<"resolveService", "findMethodByName", "newMessage",
                      "unmarshalJSON", "invokeRPC">>
              /\ \A i \in 1..4 : LastCalls[i].ok
        /\ (Made(LastCalls, "invokeRPC") = {}) =>
              /\ ~ret.panic
              /\ ret.response = NilJSON
              /\ ret.err # NoError
              /\ ret.err = firstErr

(***************************************************************************)
(* Properties of the Static resolver (checked under StaticSpec).           *)
(***************************************************************************)
Unloadable(file) ==
    \/ file.kind # "yaml"
    \/ \E p \in DOMAIN file.rawMapping : file.rawMapping[p] \in BadRawURLs

\* C15: NewStatic always returns a resolver; when the mapping file is
\* missing, undecodable or holds an address that does not parse, the
\* resolver's registry is empty, whatever entries were accepted before the
\* bad one; otherwise the registry holds exactly one address, the file's,
\* for each (service, version) pair of the file and nothing else.
C15_LoadAllOrNothing ==
    static.made =>
        IF Unloadable(static.file)
        THEN loaded = EmptyMap
        ELSE /\ DOMAIN loaded = {p[1] : p \in DOMAIN static.file.rawMapping}
             /\ \A s \in Services, v \in Versions :
                   IF <<s, v>> \in DOMAIN static.file.rawMapping
                   THEN /\ Len(ListOf(loaded, s, v)) = 1
                        /\ String(ListOf(loaded, s, v)[1]) =
                              static.file.rawMapping[<<s, v>>]
                   ELSE v \notin VersionsOf(loaded, s)

\* A file whose first entry parsed and whose second did not: the registry
\* is empty and the failure was logged.
C15_Witness ==
    /\ static.made
    /\ static.file.kind = "yaml"
    /\ Len(static.order) >= 2
    /\ static.file.rawMapping[static.order[1]] \notin BadRawURLs
    /\ static.file.rawMapping[static.order[2]] \in BadRawURLs
    /\ static.logged
    /\ loaded = EmptyMap

\* C19: GetRecord, IsServiceUnique, RecordExists and Static.Resolve leave
\* the mapping as it was, whether they succeed or fail, so the registry of a
\* Static resolver stays what it was right after load.
C19_ReadsChangeNothing ==
    /\ (last.op \in {"GetRecord", "IsServiceUnique", "RecordExists", "Resolve"})
          => m = pre
    /\ static.made => m = loaded

\* Resolve of a service the loaded file does not have failed and created
\* no entry.
C19_Witness ==
    /\ static.made
    /\ last.op = "Resolve"
    /\ last.svc \notin DOMAIN loaded
    /\ last.res.err = serviceUnresolvable(last.svc)
    /\ loaded # EmptyMap
    /\ m = loaded

(***************************************************************************)
(* Properties of the registry's locking (checked under LockSpec).          *)
(***************************************************************************)
Mutators == {"SetRecord", "RemoveRecord", "ClearRecords"}

\* The goroutine is inside the critical section of its operation.
Inside(g) == pc[g] \in {"body", "return"}

Holds_(g) == mutex.writer = g \/ g \in mutex.readers

\* C13: no mutator (SetRecord, RemoveRecord, ClearRecords) is inside its
\* critical section while another mutator or a reader is inside its own,
\* and every statement that accesses the mapping runs while the goroutine
\* holds the mutex in the operation's mode: exclusively for a mutator,
\* shared for a reader.
C13_LockingDiscipline ==
    /\ \A g, h \in Procs :
          (g # h /\ Inside(g) /\ job[g].op \in Mutators) => ~Inside(h)
    /\ \A g \in Procs :
          (pc[g] = "body") =>
              IF job[g].op \in Mutators
              THEN mutex.writer = g /\ mutex.readers = {}
              ELSE g \in mutex.readers /\ mutex.writer = NoProc

\* Two readers are inside their critical sections at the same time.
C13_Witness ==
    \E g, h \in Procs :
        /\ g # h
        /\ pc[g] = "body" /\ job[g].op \notin Mutators
        /\ pc[h] = "body" /\ job[h].op \notin Mutators
        /\ mutex.readers = {g, h}

AllIdle == \A g \in Procs : pc[g] = "idle"

\* C20: an operation has released the mutex when it has returned, by
\* whatever return path, and a goroutine that holds the mutex is never
\* acquiring it again; under fair scheduling every operation that was
\* called returns, and once all have returned the mutex is free.
C20_AllCompleteLockFree ==
    /\ [](\A g \in Procs : (pc[g] = "idle") => ~Holds_(g))
    /\ [](\A g \in Procs : Holds_(g) => pc[g] # "acquire")
    /\ [](AllIdle => mutex = RWMutexFree)
    /\ \A g \in Procs : (pc[g] # "idle") ~> (pc[g] = "idle")
    /\ <>[]AllIdle

\* All calls were made and have returned, one of them RemoveRecord by an
\* early return, another a reader by an early return; the mutex is free.
C20_Witness ==
    /\ calls = MaxCalls
    /\ AllIdle
    /\ mutex = RWMutexFree
    /\ \E g, h \in Procs :
          /\ job[g].op = "RemoveRecord" /\ job[g].early
          /\ job[h].op \in {"GetRecord", "RecordExists"} /\ job[h].early

\* Service s has exactly one version, v, and it holds exactly one address.
Single(mm, s, v) ==
    /\ s \in DOMAIN mm
    /\ DOMAIN mm[s] = {v}
    /\ Len(mm[s][v]) = 1

\* No emptied version list and no service without versions.
Pruned(mm) ==
    \A s \in DOMAIN mm :
        /\ DOMAIN mm[s] # {}
        /\ \A v \in DOMAIN mm[s] : Len(mm[s][v]) > 0

\* The mutations that run while the reader g, which has read and not yet
\* returned, runs: the last one that returned since g was called, and the
\* ones called and not yet returned; each with the mapping before it and,
\* when it has returned, after it.
Concurrent(g) ==
    (IF job[g].mut.on THEN {[job[g].mut EXCEPT !.on = TRUE]} ELSE {})
    \cup { [on |-> FALSE, op |-> job[h].op, svc |-> job[h].svc,
            version |-> job[h].version, url |-> job[h].url,
            before |-> IF pc[h] = "acquire" THEN m ELSE job[h].seen,
            after |-> EmptyMap] :
           h \in {h \in Procs \ {g} : pc[h] # "idle" /\ job[h].op \notin Readers} }

\* The mutation removes the only address of service s, at version v.
RemovesOnly(mu, s, v) ==
    /\ Single(mu.before, s, v)
    /\ \/ mu.op = "ClearRecords"
       \/ /\ mu.op = "RemoveRecord"
          /\ mu.svc = s
          /\ mu.version = v
          /\ String(mu.url) = String(mu.before[s][v][1])

\* C21: a reader never reads the mapping while a mutator is part-way
\* through its body: what it reads has no emptied version list and no
\* service without versions, and is the mapping before or after each
\* mutation that runs concurrently.  When a concurrent RemoveRecord or
\* ClearRecords removes the only address a of service s, GetRecord(s, v)
\* and GetRecord(s, "") return a or ServiceUnresolvable, and RecordExists
\* and IsServiceUnique return what they return before or after the whole
\* mutation.
C21_NoPartialMutationSeen ==
    \A g \in Procs :
        (job[g].op \in Readers) =>
            /\ ~job[g].torn
            /\ (pc[g] = "return") =>
                  /\ Pruned(job[g].seen)
                  /\ job[g].res = RecordsRead(job[g].seen, job[g])
                  /\ \A mu \in Concurrent(g) :
                        /\ job[g].seen \in
                              {mu.before} \cup (IF mu.on THEN {mu.after} ELSE {})
                        /\ \A v \in Versions :
                              (RemovesOnly(mu, job[g].svc, v)
                                 /\ job[g].version \in {v, ""}) =>
                                 IF job[g].op = "GetRecord"
                                 THEN \/ /\ job[g].res.url = mu.before[job[g].svc][v][1]
                                         /\ job[g].res.err = NilErr
                                      \/ /\ job[g].res.url = NilURL
                                         /\ job[g].res.err =
                                               serviceUnresolvable(job[g].svc)
                                 ELSE \/ job[g].res =
                                            RecordsRead(mu.before, job[g])
                                      \/ job[g].res =
                                            RecordsRead(EmptyMap, job[g])

\* GetRecord was called while RemoveRecord was removing the only address of
\* the service, read after it, and got ServiceUnresolvable.
C21_Witness ==
    \E g \in Procs :
        /\ pc[g] = "return"
        /\ job[g].op = "GetRecord"
        /\ job[g].mut.on
        /\ job[g].mut.op = "RemoveRecord"
        /\ RemovesOnly(job[g].mut, "a", "v1")
        /\ job[g].seen = job[g].mut.after
        /\ job[g].res.err = serviceUnresolvable("a")

====
